---- MODULE Spec2Model ----
(***************************************************************************)
(* Model of the task manager: the TaskService class (services/TaskService) *)
(* over the JSON task store (utils/fileUtils).  One action per public      *)
(* service operation; each operation is awaited before the next starts,    *)
(* except in SpecRace, where two createTask calls are in flight at once.   *)
(*                                                                         *)
(* Strings that are trimmed are sequences of one-character strings.        *)
(* Dates are integers (milliseconds); an unparseable date is InvalidDate.  *)
(* fs.promises.writeFile is taken to be all-or-nothing; every fs call may  *)
(* fail, which is the outcome parameter of loadTasks and saveTasks.        *)
(***************************************************************************)
EXTENDS Integers, Sequences, FiniteSets, TLC

VARIABLES
  tasks,      \* TaskService.tasks : the in-memory collection
  isLoaded,   \* TaskService.isLoaded
  file,       \* data/tasks.json : [kind, data]
  now,        \* the system clock (Date.now())
  loadCount,  \* number of calls of loadTasks so far
  calls,      \* number of service calls so far
  failedSaves,\* number of saveTasks calls that returned false so far
  last,       \* what the last operation gave back to its caller
  backups,    \* the backup files of the data directory : set of [name, data, at]
  startFile,  \* data/tasks.json as it was when the process started
  deleted,    \* the ids passed to deleteTask so far
  running     \* the createTask calls in flight at once : call -> its frame

vars == <<tasks, isLoaded, file, now, loadCount, calls, failedSaves, last,
          backups, startFile, deleted, running>>

----------------------------------------------------------------------------
(* Bounds *)

MaxCalls == 2        \* service calls made in one run
MaxMutations == 3    \* calls made in one run of createTask and deleteTask alone
MaxBackupCalls == 3  \* calls made in one run of createTask and backupTasks alone
MaxRaceClock == 2    \* the time up to which the clock runs while two calls are in flight

----------------------------------------------------------------------------
(* Values *)

\* Every JavaScript value that can stand where another kind of value can is a
\* tuple : a string is the sequence of its characters, a date is <<"date", ms>>,
\* and the values below are one-element tuples.
UNDEF == <<"undefined">>            \* undefined, or a property an object lacks
ABSENT == <<"absent">>              \* a key an input object does not carry at all
InvalidDate == <<"Invalid Date">>   \* new Date(<unparseable>) : its time is NaN
Omitted == <<"omitted">>            \* a key JSON.stringify leaves out
JNULL == <<"null">>                 \* JSON null
JTRUE == <<"true">>
JFALSE == <<"false">>

Date(ms) == <<"date", ms>>
getTime(d) == d[2]

TODO == <<"todo">>
IN_PROGRESS == <<"in_progress">>
COMPLETED == <<"completed">>
TaskStatus == {TODO, IN_PROGRESS, COMPLETED}

\* String.prototype.trim
RECURSIVE trimStart(_)
trimStart(s) ==
  IF s = <<>> THEN <<>>
  ELSE IF Head(s) = " " THEN trimStart(Tail(s)) ELSE s

RECURSIVE trimEnd(_)
trimEnd(s) ==
  IF s = <<>> THEN <<>>
  ELSE IF s[Len(s)] = " " THEN trimEnd(SubSeq(s, 1, Len(s) - 1)) ELSE s

trim(s) == trimEnd(trimStart(s))

\* x?.trim()
optTrim(x) == IF x = UNDEF THEN UNDEF ELSE trim(x)

\* Number.prototype.toString(36) : the base-36 digits of n
RECURSIVE toString36(_)
toString36(n) ==
  IF n < 36 THEN <<n>> ELSE toString36(n \div 36) \o <<n % 36>>

\* The three characters Math.random().toString(36).substring(2, 5) can give
RandomStrs == {"x7q", "k2"}

generateTaskId(t, r) == <<"task", toString36(t), r>>

\* An id no createTask produces
UnknownId == <<"task", <<>>, "">>

----------------------------------------------------------------------------
(* The store: fileUtils *)

\* Date.prototype.toJSON : the ISO string, null for an invalid date
dateToJSON(d) == IF d = InvalidDate THEN JNULL ELSE <<"iso", getTime(d)>>

\* new Date(<value read from the JSON document>)
newDate(j) ==
  IF j = JNULL THEN Date(0)
  ELSE IF j = Omitted THEN InvalidDate
  ELSE Date(j[2])

optOut(x) == IF x = UNDEF THEN Omitted ELSE x

\* JSON.stringify of one task
taskToJSON(t) ==
  [id |-> t.id,
   title |-> t.title,
   description |-> optOut(t.description),
   status |-> optOut(t.status),
   createdAt |-> dateToJSON(t.createdAt),
   updatedAt |-> dateToJSON(t.updatedAt),
   dueDate |-> IF t.dueDate = UNDEF THEN Omitted ELSE dateToJSON(t.dueDate)]

stringify(ts) == [i \in 1..Len(ts) |-> taskToJSON(ts[i])]

optIn(x) == IF x = Omitted THEN UNDEF ELSE x

\* the map callback of loadTasks
taskFromJSON(j) ==
  [id |-> j.id,
   title |-> j.title,
   description |-> optIn(j.description),
   status |-> optIn(j.status),
   createdAt |-> newDate(j.createdAt),
   updatedAt |-> newDate(j.updatedAt),
   dueDate |-> IF j.dueDate \in {Omitted, JNULL} THEN UNDEF ELSE newDate(j.dueDate)]

parse(data) == [i \in 1..Len(data) |-> taskFromJSON(data[i])]

MissingFile == [kind |-> "missing", data |-> <<>>]
CorruptFile == [kind |-> "corrupt", data |-> <<>>]
JSONFile(data) == [kind |-> "json", data |-> data]

ensureTasksFile(f) == IF f.kind = "missing" THEN JSONFile(<<>>) ELSE f

\* what the fs calls of loadTasks and saveTasks do : all succeed, the ones of
\* ensureTasksFile throw, or the read / write after it throws.  When the file
\* exists ensureTasksFile writes nothing and the two failures leave the same state.
LoadOutcomes(f) ==
  IF f.kind = "missing" THEN {"ok", "failEnsure", "failRead"} ELSE {"ok", "failRead"}
SaveOutcomes(f) ==
  IF f.kind = "missing" THEN {"ok", "failEnsure", "failWrite"} ELSE {"ok", "failWrite"}

\* loadTasks : the tasks it returns and the file it leaves
loadTasks(f, lo) ==
  IF lo = "failEnsure" THEN [tasks |-> <<>>, file |-> f]
  ELSE IF lo = "failRead" THEN [tasks |-> <<>>, file |-> ensureTasksFile(f)]
  ELSE IF f.kind = "corrupt" THEN [tasks |-> <<>>, file |-> f]
  ELSE [tasks |-> parse(ensureTasksFile(f).data), file |-> ensureTasksFile(f)]

\* saveTasks : the boolean it returns and the file it leaves
saveTasks(ts, f, so) ==
  IF so = "failEnsure" THEN [ok |-> FALSE, file |-> f]
  ELSE IF so = "failWrite" THEN [ok |-> FALSE, file |-> ensureTasksFile(f)]
  ELSE [ok |-> TRUE, file |-> JSONFile(stringify(ts))]

----------------------------------------------------------------------------
(* TaskService helpers *)

\* Array.prototype.findIndex(t => t.id == id), 0 standing for -1
RECURSIVE findIndexFrom(_, _, _)
findIndexFrom(ts, id, i) ==
  IF i > Len(ts) THEN 0
  ELSE IF ts[i].id = id THEN i ELSE findIndexFrom(ts, id, i + 1)

findIndex(ts, id) == findIndexFrom(ts, id, 1)

\* Array.prototype.splice(i, 1)
splice(ts, i) == SubSeq(ts, 1, i - 1) \o SubSeq(ts, i + 1, Len(ts))

\* !title : the title is tested without being trimmed
isBlankTitle_untrimmed(title) == title = <<>>

\* !title.trim()
isBlankTitle(title) == trim(title) = <<>>

\* the object literal of createTask
newTask(input, id, t) ==
  [id |-> id,
   title |-> trim(input.title),
   description |-> optTrim(input.description),
   status |-> TODO,
   createdAt |-> t,
   updatedAt |-> t,
   dueDate |-> input.dueDate]

\* the object literal of updateTask without the trim of the title
mergeTask_untrimmed(cur, upd, t) ==
  [id |-> cur.id,
   title |-> IF upd.title \in {ABSENT, UNDEF} THEN cur.title ELSE upd.title,
   description |-> IF upd.description \in {ABSENT, UNDEF} THEN cur.description
                   ELSE trim(upd.description),
   status |-> IF upd.status = ABSENT THEN cur.status ELSE upd.status,
   createdAt |-> cur.createdAt,
   updatedAt |-> t,
   dueDate |-> IF upd.dueDate = ABSENT THEN cur.dueDate ELSE upd.dueDate]

\* the object literal of updateTask without updatedAt: new Date()
mergeTask_staleUpdatedAt(cur, upd, t) ==
  [id |-> cur.id,
   title |-> IF upd.title \in {ABSENT, UNDEF} THEN cur.title ELSE trim(upd.title),
   description |-> IF upd.description \in {ABSENT, UNDEF} THEN cur.description
                   ELSE trim(upd.description),
   status |-> IF upd.status = ABSENT THEN cur.status ELSE upd.status,
   createdAt |-> cur.createdAt,
   updatedAt |-> cur.updatedAt,
   dueDate |-> IF upd.dueDate = ABSENT THEN cur.dueDate ELSE upd.dueDate]

\* the object literal of updateTask : {...currentTask, ...updateData, title, description, updatedAt}
mergeTask(cur, upd, t) ==
  [id |-> cur.id,
   title |-> IF upd.title \in {ABSENT, UNDEF} THEN cur.title ELSE trim(upd.title),
   description |-> IF upd.description \in {ABSENT, UNDEF} THEN cur.description
                   ELSE trim(upd.description),
   status |-> IF upd.status = ABSENT THEN cur.status ELSE upd.status,
   createdAt |-> cur.createdAt,
   updatedAt |-> t,
   dueDate |-> IF upd.dueDate = ABSENT THEN cur.dueDate ELSE upd.dueDate]

\* a < b on dates : false when either time is NaN
dateLess(a, b) == a # InvalidDate /\ b # InvalidDate /\ getTime(a) < getTime(b)

hasDesc(t) == t.description # UNDEF /\ trim(t.description) # <<>>

\* the predicate of applyFilters with hasDescription tested for truth instead of
\* for being given
passesFilters_truthy(t, f) ==
  /\ ~(f.status # UNDEF /\ t.status # f.status)
  /\ ~(f.hasDescription = JTRUE /\ ~hasDesc(t))
  /\ ~(f.dueBefore # UNDEF /\ t.dueDate # UNDEF /\ dateLess(f.dueBefore, t.dueDate))
  /\ ~(f.dueAfter # UNDEF /\ t.dueDate # UNDEF /\ dateLess(t.dueDate, f.dueAfter))

\* the predicate of applyFilters
passesFilters(t, f) ==
  /\ ~(f.status # UNDEF /\ t.status # f.status)
  /\ ~(f.hasDescription # UNDEF /\ hasDesc(t) # (f.hasDescription = JTRUE))
  /\ ~(f.dueBefore # UNDEF /\ t.dueDate # UNDEF /\ dateLess(f.dueBefore, t.dueDate))
  /\ ~(f.dueAfter # UNDEF /\ t.dueDate # UNDEF /\ dateLess(t.dueDate, f.dueAfter))

applyFilters(ts, f) == SelectSeq(ts, LAMBDA t : passesFilters(t, f))

\* Array.prototype.sort((a, b) => b.createdAt - a.createdAt) : stable, newest first
RECURSIVE insertDesc(_, _)
insertDesc(sorted, t) ==
  IF sorted = <<>> THEN <<t>>
  ELSE IF getTime(Head(sorted).createdAt) >= getTime(t.createdAt)
       THEN <<Head(sorted)>> \o insertDesc(Tail(sorted), t)
       ELSE <<t>> \o sorted

\* getAllTasks without the sort
sortByCreatedDesc_unsorted(ts) == ts

RECURSIVE sortByCreatedDesc(_)
sortByCreatedDesc(ts) ==
  IF ts = <<>> THEN <<>>
  ELSE insertDesc(sortByCreatedDesc(SubSeq(ts, 1, Len(ts) - 1)), ts[Len(ts)])

\* isTaskOverdue without the test of the status
isTaskOverdue_countsCompleted(t, at) ==
  IF t.dueDate = UNDEF THEN FALSE ELSE dateLess(t.dueDate, at)

isTaskOverdue(t, at) ==
  IF t.dueDate = UNDEF \/ t.status = COMPLETED THEN FALSE
  ELSE dateLess(t.dueDate, at)

count(ts, P(_)) == Cardinality({i \in 1..Len(ts) : P(ts[i])})

taskStats(ts, at) ==
  [total |-> Len(ts),
   todo |-> count(ts, LAMBDA t : t.status = TODO),
   inProgress |-> count(ts, LAMBDA t : t.status = IN_PROGRESS),
   completed |-> count(ts, LAMBDA t : t.status = COMPLETED),
   overdue |-> count(ts, LAMBDA t : isTaskOverdue(t, at))]

----------------------------------------------------------------------------
(* Results *)

NONE == "none"

\* data of a response : <<>> when the response carries none, else <<value>>
NoData == <<>>

\* an ApiResponse handed back to the caller
Response(op, id, success, error, data, found, saved, loaded) ==
  [op |-> op, id |-> id, outcome |-> "returned", success |-> success,
   error |-> error, data |-> data, found |-> found, saved |-> saved,
   loaded |-> loaded]

\* a promise rejected with a fault instead of an ApiResponse
Rejection(op, id, error) ==
  [op |-> op, id |-> id, outcome |-> "rejected", success |-> FALSE,
   error |-> error, data |-> NoData, found |-> FALSE, saved |-> NONE,
   loaded |-> FALSE]

NoCall == [op |-> NONE, id |-> UNDEF, outcome |-> NONE, success |-> FALSE,
           error |-> NONE, data |-> NoData, found |-> FALSE, saved |-> NONE,
           loaded |-> FALSE]

----------------------------------------------------------------------------
(* Inputs *)

\* input of createTask : a blank title, an untrimmed one, with and without
\* description and due date (new Date(options.dueDate) of the add command is
\* InvalidDate when the text is no date)
CreateInputs ==
  {[title |-> <<>>, description |-> UNDEF, dueDate |-> UNDEF],
   [title |-> <<" ">>, description |-> <<"d">>, dueDate |-> Date(1)],
   [title |-> <<" ", "a", " ">>, description |-> <<"d", " ">>, dueDate |-> Date(1)],
   [title |-> <<"b">>, description |-> UNDEF, dueDate |-> InvalidDate]}

NoPatch == [title |-> ABSENT, description |-> ABSENT, status |-> ABSENT,
            dueDate |-> ABSENT]

\* updateData of the update command with options, and of direct callers
OptionPatches ==
  {NoPatch,
   [NoPatch EXCEPT !.title = <<" ">>],
   [NoPatch EXCEPT !.status = COMPLETED],
   [NoPatch EXCEPT !.title = <<"b", " ">>, !.description = <<" ", "d">>,
                   !.dueDate = Date(1)]}

\* updateData of the interactive update : title, description and status are
\* always carried, with undefined for an answer left unchanged
InteractivePatches ==
  {[NoPatch EXCEPT !.title = UNDEF, !.description = UNDEF, !.status = UNDEF]}

Patches == OptionPatches \cup InteractivePatches

\* filterOptions : given is false when getAllTasks is called without argument
NoFilter == [given |-> TRUE, status |-> UNDEF, hasDescription |-> UNDEF,
             dueBefore |-> UNDEF, dueAfter |-> UNDEF]

NoArgument == [NoFilter EXCEPT !.given = FALSE]

\* filterOptions of `list --overdue` : dueBefore is the time of the command
OverdueFilter == [NoFilter EXCEPT !.dueBefore = Date(now)]

Filters ==
  {NoArgument,
   NoFilter,
   [NoFilter EXCEPT !.hasDescription = JTRUE, !.dueBefore = Date(1)],
   [NoFilter EXCEPT !.status = IN_PROGRESS, !.dueBefore = Date(0)],
   [NoFilter EXCEPT !.hasDescription = JFALSE, !.dueAfter = Date(1)],
   OverdueFilter}

idsOf(ts) == {ts[i].id : i \in 1..Len(ts)}

\* the ids a caller passes : those of the tasks there are, and one of no task
IdInputs ==
  {UnknownId} \cup (IF isLoaded THEN idsOf(tasks) ELSE idsOf(parse(file.data)))

----------------------------------------------------------------------------
(* The tasks file a run can start from : missing, unparseable, or written  *)
(* by earlier runs.                                                        *)

Old1 == [id |-> generateTaskId(0, "x7q"), title |-> <<"a">>, description |-> UNDEF,
         status |-> TODO, createdAt |-> Date(0), updatedAt |-> Date(0),
         dueDate |-> UNDEF]

Old2 == [id |-> generateTaskId(0, "k2"), title |-> <<"b">>, description |-> <<"d">>,
         status |-> IN_PROGRESS, createdAt |-> Date(0), updatedAt |-> Date(0),
         dueDate |-> Date(0)]

Old3 == [id |-> generateTaskId(0, "m4z"), title |-> <<"c">>, description |-> UNDEF,
         status |-> COMPLETED, createdAt |-> Date(0), updatedAt |-> Date(0),
         dueDate |-> Date(0)]

InitFiles ==
  {MissingFile, CorruptFile, JSONFile(stringify(<<Old1>>)),
   JSONFile(stringify(<<Old1, Old2>>)), JSONFile(stringify(<<Old1, Old2, Old3>>))}

\* no createTask call is in flight
Idle == [pc |-> "idle", input |-> UNDEF, r |-> "", loads |-> FALSE, lo |-> "ok",
         created |-> UNDEF, data |-> <<>>, response |-> NoCall]

Calls == {1, 2}

NoneRunning == [c \in Calls |-> Idle]

Init ==
  /\ tasks = <<>>
  /\ isLoaded = FALSE
  /\ file \in InitFiles
  /\ now = 1
  /\ loadCount = 0
  /\ calls = 0
  /\ failedSaves = 0
  /\ last = NoCall
  /\ backups = {}
  /\ startFile = file
  /\ deleted = {}
  /\ running = NoneRunning

----------------------------------------------------------------------------
(* Operations *)

\* the outcomes loadTasks can have when initialize() is entered
InitOutcomes == IF isLoaded THEN {"ok"} ELSE LoadOutcomes(file)

\* initialize() : the collection, the file and the number of loads it leaves
initialized(lo) ==
  IF isLoaded
  THEN [tasks |-> tasks, file |-> file, loads |-> loadCount, loaded |-> FALSE]
  ELSE [tasks |-> loadTasks(file, lo).tasks, file |-> loadTasks(file, lo).file,
        loads |-> loadCount + 1, loaded |-> TRUE]

initialize(lo) ==
  /\ tasks' = initialized(lo).tasks
  /\ file' = initialized(lo).file
  /\ loadCount' = initialized(lo).loads
  /\ isLoaded' = TRUE
  /\ last' = [NoCall EXCEPT !.op = "initialize", !.outcome = "returned",
                            !.loaded = initialized(lo).loaded]
  /\ calls' = calls + 1
  /\ UNCHANGED <<now, failedSaves>>

createTask(input, r, lo, so) ==
  LET ld == initialized(lo)
      blank == isBlankTitle(input.title)
      created == newTask(input, generateTaskId(now, r), Date(now))
      pushed == Append(ld.tasks, created)
      sv == saveTasks(pushed, ld.file, so)
  IN /\ calls' = calls + 1
     /\ isLoaded' = TRUE
     /\ loadCount' = ld.loads
     /\ UNCHANGED now
     /\ IF blank
        THEN /\ tasks' = ld.tasks
             /\ file' = ld.file
             /\ UNCHANGED failedSaves
             /\ last' = Response("createTask", UNDEF, FALSE, "INVALID_TITLE", NoData,
                                 FALSE, NONE, ld.loaded)
        ELSE /\ tasks' = pushed
             /\ file' = sv.file
             /\ failedSaves' = IF sv.ok THEN failedSaves ELSE failedSaves + 1
             /\ last' = IF sv.ok
                        THEN Response("createTask", created.id, TRUE, NONE, <<created>>,
                                      FALSE, "ok", ld.loaded)
                        ELSE Response("createTask", created.id, FALSE,
                                      "Failed to save task", NoData, FALSE, "fail",
                                      ld.loaded)

\* getAllTasks that sorts this.tasks itself instead of a copy
getAllTasks_sortsInPlace(filter, lo) ==
  LET ld == initialized(lo)
      sorted == sortByCreatedDesc(ld.tasks)
      filtered == IF filter.given THEN applyFilters(sorted, filter) ELSE sorted
  IN /\ tasks' = sorted
     /\ file' = ld.file
     /\ isLoaded' = TRUE
     /\ loadCount' = ld.loads
     /\ last' = Response("getAllTasks", UNDEF, TRUE, NONE, <<filtered>>,
                         FALSE, NONE, ld.loaded)
     /\ calls' = calls + 1
     /\ UNCHANGED <<now, failedSaves>>

getAllTasks(filter, lo) ==
  LET ld == initialized(lo)
      filtered == IF filter.given THEN applyFilters(ld.tasks, filter) ELSE ld.tasks
  IN /\ tasks' = ld.tasks
     /\ file' = ld.file
     /\ isLoaded' = TRUE
     /\ loadCount' = ld.loads
     /\ last' = Response("getAllTasks", UNDEF, TRUE, NONE, <<sortByCreatedDesc(filtered)>>,
                         FALSE, NONE, ld.loaded)
     /\ calls' = calls + 1
     /\ UNCHANGED <<now, failedSaves>>

getTaskById(id, lo) ==
  LET ld == initialized(lo)
      idx == findIndex(ld.tasks, id)
  IN /\ tasks' = ld.tasks
     /\ file' = ld.file
     /\ isLoaded' = TRUE
     /\ loadCount' = ld.loads
     /\ last' = IF idx = 0
                THEN Response("getTaskById", id, FALSE, "TASK_NOT_FOUND", NoData,
                              FALSE, NONE, ld.loaded)
                ELSE Response("getTaskById", id, TRUE, NONE, <<ld.tasks[idx]>>,
                              TRUE, NONE, ld.loaded)
     /\ calls' = calls + 1
     /\ UNCHANGED <<now, failedSaves>>

\* updateTask that puts the previous task back when the save fails
updateTaskResult_rollback(id, updateData, lo, so) ==
  LET ld == initialized(lo)
      idx == findIndex(ld.tasks, id)
      badTitle == updateData.title \notin {ABSENT, UNDEF} /\ isBlankTitle(updateData.title)
      updated == mergeTask(ld.tasks[idx], updateData, Date(now))
      stored == [ld.tasks EXCEPT ![idx] = updated]
      sv == saveTasks(stored, ld.file, so)
  IN IF idx = 0
     THEN [tasks |-> ld.tasks, file |-> ld.file, failed |-> 0,
           response |-> Response("updateTask", id, FALSE, "INVALID_TITLE", NoData,
                                 FALSE, NONE, ld.loaded)]
     ELSE IF badTitle
     THEN [tasks |-> ld.tasks, file |-> ld.file, failed |-> 0,
           response |-> Response("updateTask", id, FALSE, "INVALID_TITLE", NoData,
                                 TRUE, NONE, ld.loaded)]
     ELSE IF sv.ok
     THEN [tasks |-> stored, file |-> sv.file, failed |-> 0,
           response |-> Response("updateTask", id, TRUE, NONE, <<updated>>, TRUE, "ok",
                                 ld.loaded)]
     ELSE [tasks |-> ld.tasks, file |-> sv.file, failed |-> 1,
           response |-> Response("updateTask", id, FALSE, "Failed to save task",
                                 NoData, TRUE, "fail", ld.loaded)]

\* updateTask : the collection and the file it leaves, and what it returns
updateTaskResult(id, updateData, lo, so) ==
  LET ld == initialized(lo)
      idx == findIndex(ld.tasks, id)
      badTitle == updateData.title \notin {ABSENT, UNDEF} /\ isBlankTitle(updateData.title)
      updated == mergeTask(ld.tasks[idx], updateData, Date(now))
      stored == [ld.tasks EXCEPT ![idx] = updated]
      sv == saveTasks(stored, ld.file, so)
  IN IF idx = 0
     THEN [tasks |-> ld.tasks, file |-> ld.file, failed |-> 0,
           response |-> Response("updateTask", id, FALSE, "INVALID_TITLE", NoData,
                                 FALSE, NONE, ld.loaded)]
     ELSE IF badTitle
     THEN [tasks |-> ld.tasks, file |-> ld.file, failed |-> 0,
           response |-> Response("updateTask", id, FALSE, "INVALID_TITLE", NoData,
                                 TRUE, NONE, ld.loaded)]
     ELSE IF sv.ok
     THEN [tasks |-> stored, file |-> sv.file, failed |-> 0,
           response |-> Response("updateTask", id, TRUE, NONE, <<updated>>, TRUE, "ok",
                                 ld.loaded)]
     ELSE [tasks |-> stored, file |-> sv.file, failed |-> 1,
           response |-> Response("updateTask", id, FALSE, "Failed to save task",
                                 NoData, TRUE, "fail", ld.loaded)]

updateTask(id, updateData, lo, so) ==
  /\ tasks' = updateTaskResult(id, updateData, lo, so).tasks
  /\ file' = updateTaskResult(id, updateData, lo, so).file
  /\ last' = updateTaskResult(id, updateData, lo, so).response
  /\ failedSaves' = failedSaves + updateTaskResult(id, updateData, lo, so).failed
  /\ isLoaded' = TRUE
  /\ loadCount' = initialized(lo).loads
  /\ calls' = calls + 1
  /\ UNCHANGED now

deleteTask(id, lo, so) ==
  LET ld == initialized(lo)
      idx == findIndex(ld.tasks, id)
      spliced == splice(ld.tasks, idx)
      sv == saveTasks(spliced, ld.file, so)
  IN /\ calls' = calls + 1
     /\ isLoaded' = TRUE
     /\ loadCount' = ld.loads
     /\ UNCHANGED now
     /\ IF idx = 0
        THEN /\ tasks' = ld.tasks
             /\ file' = ld.file
             /\ UNCHANGED failedSaves
             /\ last' = Response("deleteTask", id, FALSE, "TASK_NOT_FOUND", NoData,
                                 FALSE, NONE, ld.loaded)
        ELSE /\ tasks' = spliced
             /\ file' = sv.file
             /\ failedSaves' = IF sv.ok THEN failedSaves ELSE failedSaves + 1
             /\ last' = IF sv.ok
                        THEN Response("deleteTask", id, TRUE, NONE, <<TRUE>>, TRUE, "ok",
                                      ld.loaded)
                        ELSE Response("deleteTask", id, FALSE, "Failed to save task",
                                      NoData, TRUE, "fail", ld.loaded)

\* this.udpateTask is not a member of TaskService : the call throws a TypeError
\* outside any try block, before initialize() is reached
updateTaskStatus(id, status) ==
  /\ calls' = calls + 1
  /\ last' = Rejection("updateTaskStatus", id, "TypeError")
  /\ UNCHANGED <<tasks, isLoaded, file, now, loadCount, failedSaves>>

getTaskStats(lo) ==
  LET ld == initialized(lo)
  IN /\ tasks' = ld.tasks
     /\ file' = ld.file
     /\ isLoaded' = TRUE
     /\ loadCount' = ld.loads
     /\ last' = Response("getTaskStats", UNDEF, TRUE, NONE, <<taskStats(ld.tasks, Date(now))>>,
                         FALSE, NONE, ld.loaded)
     /\ calls' = calls + 1
     /\ UNCHANGED <<now, failedSaves>>

\* the clock advances after an operation has returned, before the next one
Tick ==
  /\ last.op # NONE
  /\ now' = now + 1
  /\ last' = NoCall
  /\ UNCHANGED <<tasks, isLoaded, file, loadCount, calls, failedSaves>>

\* a caller may make another call
MayCall == calls < MaxCalls

\* what the awaited service operations leave alone
awaited == <<backups, startFile, running>>

DoInitialize ==
  MayCall /\ (\E lo \in InitOutcomes : initialize(lo)) /\ UNCHANGED <<awaited, deleted>>

DoCreateTask ==
  /\ MayCall
  /\ \E input \in CreateInputs, r \in RandomStrs, lo \in InitOutcomes :
       \E so \in SaveOutcomes(initialized(lo).file) : createTask(input, r, lo, so)
  /\ UNCHANGED <<awaited, deleted>>

DoGetAllTasks ==
  /\ MayCall
  /\ \E f \in Filters, lo \in InitOutcomes : getAllTasks(f, lo)
  /\ UNCHANGED <<awaited, deleted>>

DoGetTaskById ==
  /\ MayCall
  /\ \E id \in IdInputs, lo \in InitOutcomes : getTaskById(id, lo)
  /\ UNCHANGED <<awaited, deleted>>

DoUpdateTask ==
  /\ MayCall
  /\ \E id \in IdInputs, p \in Patches, lo \in InitOutcomes :
       \E so \in SaveOutcomes(initialized(lo).file) : updateTask(id, p, lo, so)
  /\ UNCHANGED <<awaited, deleted>>

DoDeleteTask ==
  /\ MayCall
  /\ \E id \in IdInputs, lo \in InitOutcomes :
       \E so \in SaveOutcomes(initialized(lo).file) :
         deleteTask(id, lo, so) /\ deleted' = deleted \cup {id}
  /\ UNCHANGED awaited

DoUpdateTaskStatus ==
  /\ MayCall
  /\ \E id \in IdInputs, s \in TaskStatus : updateTaskStatus(id, s)
  /\ UNCHANGED <<awaited, deleted>>

DoGetTaskStats ==
  MayCall /\ (\E lo \in InitOutcomes : getTaskStats(lo)) /\ UNCHANGED <<awaited, deleted>>

DoTick == MayCall /\ Tick /\ UNCHANGED <<awaited, deleted>>

Next ==
  \/ DoInitialize
  \/ DoCreateTask
  \/ DoGetAllTasks
  \/ DoGetTaskById
  \/ DoUpdateTask
  \/ DoDeleteTask
  \/ DoUpdateTaskStatus
  \/ DoGetTaskStats
  \/ DoTick

Spec == Init /\ [][Next]_vars

\* Longer runs of the operations that change the length of the collection
MayMutate == calls < MaxMutations

MutCreateTask ==
  /\ MayMutate
  /\ \E input \in CreateInputs, r \in RandomStrs, lo \in InitOutcomes :
       \E so \in SaveOutcomes(initialized(lo).file) : createTask(input, r, lo, so)
  /\ UNCHANGED <<awaited, deleted>>

MutDeleteTask ==
  /\ MayMutate
  /\ \E id \in IdInputs, lo \in InitOutcomes :
       \E so \in SaveOutcomes(initialized(lo).file) :
         deleteTask(id, lo, so) /\ deleted' = deleted \cup {id}
  /\ UNCHANGED awaited

MutTick == MayMutate /\ Tick /\ UNCHANGED <<awaited, deleted>>

NextMutations ==
  \/ MutCreateTask
  \/ MutDeleteTask
  \/ MutTick

SpecMutations == Init /\ [][NextMutations]_vars

\* Runs of backupTasks, with createTask changing the tasks file in between

\* path.join(DATA_DIR, 'tasks_backup_${timestamp}.json') : the quotes are single
\* quotes, so the text is taken as it stands and the timestamp is not put in
backupFileName(timestamp) == "tasks_backup_${timestamp}.json"

BackupOutcomes == {"ok", "failCopy"}

\* fs.promises.copyFile(TASKS_FILE, backupFile) : a file of that name is replaced
copyFile(dir, name, f, at) ==
  {b \in dir : b.name # name} \cup {[name |-> name, data |-> f, at |-> at]}

backupTasks(bo) ==
  /\ calls' = calls + 1
  /\ IF file.kind = "missing"
     THEN /\ UNCHANGED backups
          /\ last' = [NoCall EXCEPT !.op = "backupTasks", !.outcome = "returned",
                                    !.success = TRUE]
     ELSE IF bo = "failCopy"
     THEN /\ UNCHANGED backups
          /\ last' = [NoCall EXCEPT !.op = "backupTasks", !.outcome = "returned",
                                    !.success = FALSE, !.error = "copyFile"]
     ELSE /\ backups' = copyFile(backups, backupFileName(now), file, now)
          /\ last' = [NoCall EXCEPT !.op = "backupTasks", !.outcome = "returned",
                                    !.success = TRUE]
  /\ UNCHANGED <<tasks, isLoaded, file, now, loadCount, failedSaves, startFile,
                 deleted, running>>

MayBackup == calls < MaxBackupCalls

BkBackupTasks == MayBackup /\ \E bo \in BackupOutcomes : backupTasks(bo)

BkCreateTask ==
  /\ MayBackup
  /\ \E input \in CreateInputs, r \in RandomStrs, lo \in InitOutcomes :
       \E so \in SaveOutcomes(initialized(lo).file) : createTask(input, r, lo, so)
  /\ UNCHANGED <<awaited, deleted>>

BkTick == MayBackup /\ Tick /\ UNCHANGED <<awaited, deleted>>

NextBackup ==
  \/ BkBackupTasks
  \/ BkCreateTask
  \/ BkTick

SpecBackup == Init /\ [][NextBackup]_vars

\* Two createTask calls on the singleton, the second started without awaiting
\* the first.  A call runs from one await of an fs promise to the next without
\* the other call running in between : it is started (up to the readFile of
\* loadTasks), resumed when the read is done (up to the writeFile of
\* saveTasks), and resumed when the write is done.

\* createTask from the return of initialize() to the writeFile of saveTasks,
\* on the collection base and the file f : the collection and the file it
\* leaves, the frame of the call, and whether saveTasks has failed already
createTaskBody(frame, base, f, so) ==
  LET created == newTask(frame.input, generateTaskId(now, frame.r), Date(now))
      pushed == Append(base, created)
  IN IF isBlankTitle(frame.input.title)
     THEN [tasks |-> base, file |-> f, failed |-> 0,
           frame |-> [frame EXCEPT !.pc = "done",
                        !.response = Response("createTask", UNDEF, FALSE, "INVALID_TITLE",
                                              NoData, FALSE, NONE, FALSE)]]
     ELSE IF so = "failEnsure"
     THEN [tasks |-> pushed, file |-> f, failed |-> 1,
           frame |-> [frame EXCEPT !.pc = "done", !.created = created,
                        !.response = Response("createTask", created.id, FALSE,
                                              "Failed to save task", NoData, FALSE,
                                              "fail", FALSE)]]
     ELSE [tasks |-> pushed, file |-> ensureTasksFile(f), failed |-> 0,
           frame |-> [frame EXCEPT !.pc = "writing", !.created = created,
                        !.data = stringify(pushed)]]

\* the outcomes of the ensureTasksFile() that opens loadTasks and saveTasks
EnsureOutcomes(f) == IF f.kind = "missing" THEN {"ok", "failEnsure"} ELSE {"ok"}

\* the call c is made : initialize() finds the service loaded or starts loadTasks
RaceStart(c, input, r, lo, so) ==
  LET frame == [Idle EXCEPT !.input = input, !.r = r]
      body == createTaskBody(frame, tasks, file, so)
  IN /\ running[c].pc = "idle"
     /\ IF c = 1 THEN calls = 0 ELSE running[1].pc \in {"reading", "writing"}
     /\ calls' = calls + 1
     /\ IF isLoaded
        THEN /\ tasks' = body.tasks
             /\ file' = body.file
             /\ failedSaves' = failedSaves + body.failed
             /\ running' = [running EXCEPT ![c] = body.frame]
             /\ UNCHANGED loadCount
        ELSE /\ loadCount' = loadCount + 1
             /\ file' = IF lo = "failEnsure" THEN file ELSE ensureTasksFile(file)
             /\ running' = [running EXCEPT ![c] = [frame EXCEPT !.pc = "reading",
                                                     !.loads = TRUE, !.lo = lo]]
             /\ UNCHANGED <<tasks, failedSaves>>
     /\ UNCHANGED <<isLoaded, now, last, backups, startFile, deleted>>

\* the readFile of the call c is done : loadTasks returns, initialize() assigns
\* this.tasks and sets isLoaded, and createTask goes on to its writeFile
RaceRead(c, ro, so) ==
  LET frame == running[c]
      loaded == IF frame.lo = "failEnsure" \/ ro = "failRead"
                THEN <<>>
                ELSE loadTasks(file, "ok").tasks
      body == createTaskBody(frame, loaded, file, so)
  IN /\ frame.pc = "reading"
     /\ isLoaded' = TRUE
     /\ tasks' = body.tasks
     /\ file' = body.file
     /\ failedSaves' = failedSaves + body.failed
     /\ running' = [running EXCEPT ![c] = body.frame]
     /\ last' = IF body.frame.pc = "done" THEN body.frame.response ELSE last
     /\ UNCHANGED <<now, loadCount, calls, backups, startFile, deleted>>

\* the writeFile of the call c is done : saveTasks returns and createTask returns
RaceWrite(c, wo) ==
  LET frame == running[c]
      response == IF wo = "ok"
                  THEN Response("createTask", frame.created.id, TRUE, NONE,
                                <<frame.created>>, FALSE, "ok", FALSE)
                  ELSE Response("createTask", frame.created.id, FALSE,
                                "Failed to save task", NoData, FALSE, "fail", FALSE)
  IN /\ frame.pc = "writing"
     /\ file' = IF wo = "ok" THEN JSONFile(frame.data) ELSE file
     /\ failedSaves' = IF wo = "ok" THEN failedSaves ELSE failedSaves + 1
     /\ running' = [running EXCEPT ![c] = [frame EXCEPT !.pc = "done",
                                                        !.response = response]]
     /\ last' = response
     /\ UNCHANGED <<tasks, isLoaded, now, loadCount, calls, backups, startFile, deleted>>

\* the clock advances while calls are in flight
RaceTick ==
  /\ now < MaxRaceClock
  /\ \E c \in Calls : running[c].pc \in {"reading", "writing"}
  /\ now' = now + 1
  /\ UNCHANGED <<tasks, isLoaded, file, loadCount, calls, failedSaves, last, backups,
                 startFile, deleted, running>>

DoRaceStart ==
  \E c \in Calls, input \in CreateInputs, r \in RandomStrs :
    \E lo \in EnsureOutcomes(file), so \in EnsureOutcomes(file) :
      RaceStart(c, input, r, lo, so)

DoRaceRead ==
  \E c \in Calls, ro \in {"ok", "failRead"}, so \in EnsureOutcomes(file) :
    RaceRead(c, ro, so)

DoRaceWrite == \E c \in Calls, wo \in {"ok", "failWrite"} : RaceWrite(c, wo)

NextRace ==
  \/ DoRaceStart
  \/ DoRaceRead
  \/ DoRaceWrite
  \/ RaceTick

SpecRace == Init /\ [][NextRace]_vars

----------------------------------------------------------------------------
(* Properties *)

\* the step is a call of the operation op
Called(op) == calls' = calls + 1 /\ last'.op = op

MutatingOps == {"createTask", "updateTask", "deleteTask"}

TaskFields == {"title", "description", "status", "dueDate"}

\* C1 : updateTask with an id of no task of the (loaded) collection returns a
\* failure whose error code is TASK_NOT_FOUND, and leaves the collection and the
\* file as they were.
C1_UpdateUnknownIdIsNotFound ==
  [][(isLoaded /\ Called("updateTask") /\ findIndex(tasks, last'.id) = 0)
       => /\ last'.outcome = "returned"
          /\ last'.success = FALSE
          /\ last'.error = "TASK_NOT_FOUND"
          /\ tasks' = tasks
          /\ file' = file]_vars

\* C2 : an updateTask that goes through on an existing task leaves every field
\* of title, description, status, dueDate that the patch does not carry, or
\* carries as undefined, at its previous value in the stored task.
C2_UpdateKeepsUnprovidedFields ==
  [][\A id \in IdInputs, p \in Patches, lo \in InitOutcomes :
       \A so \in SaveOutcomes(initialized(lo).file) :
         LET before == initialized(lo).tasks
             idx == findIndex(before, id)
         IN (Called("updateTask") /\ updateTask(id, p, lo, so) /\ idx # 0
               /\ last'.saved # NONE)
              => \A k \in TaskFields :
                   p[k] \in {ABSENT, UNDEF} => tasks'[idx][k] = before[idx][k]]_vars

\* C3 : every call of a public operation ends by returning a result that
\* carries a success flag; none ends in a rejected promise.
C3_EveryCallReturnsAResult ==
  last.op # NONE => last.outcome = "returned" /\ last.success \in BOOLEAN

\* C4 : updateTaskStatus(id, s) returns what updateTask(id, {status: s}) returns
\* and leaves the collection and the file as that call leaves them.
C4_UpdateTaskStatusIsUpdateTask ==
  [][\A id \in IdInputs, s \in TaskStatus :
       (Called("updateTaskStatus") /\ updateTaskStatus(id, s))
         => \E lo \in InitOutcomes :
              \E so \in SaveOutcomes(initialized(lo).file) :
                LET r == updateTaskResult(id, [NoPatch EXCEPT !.status = s], lo, so)
                IN /\ tasks' = r.tasks
                   /\ file' = r.file
                   /\ last'.outcome = r.response.outcome
                   /\ last'.success = r.response.success
                   /\ last'.error = r.response.error
                   /\ last'.data = r.response.data]_vars

\* C5 : right after a createTask, updateTask or deleteTask that returned
\* success, the file holds exactly the in-memory collection : the tasks read
\* from it are the tasks in memory, in the same order and with the same field
\* values, whatever saves failed before.
C5_FileMirrorsMemoryAfterSuccess ==
  (last.op \in MutatingOps /\ last.success)
    => /\ file.kind = "json"
       /\ parse(file.data) = tasks

\* what a createTask, updateTask or deleteTask step whose save failed leaves in
\* memory : the created task, found by its id; the updated task; the collection
\* without the deleted task
ChangeIsKept ==
  LET i == findIndex(tasks, last'.id)
  IN CASE last'.op = "createTask" ->
            /\ Len(tasks') = Len(tasks) + 1
            /\ SubSeq(tasks', 1, Len(tasks)) = tasks
            /\ tasks'[Len(tasks')].id = last'.id
            /\ findIndex(tasks', last'.id) # 0
       [] last'.op = "updateTask" ->
            /\ i # 0
            /\ \E p \in Patches : tasks' = [tasks EXCEPT ![i] = mergeTask(tasks[i], p, Date(now))]
            /\ tasks'[i].updatedAt = Date(now)
       [] last'.op = "deleteTask" ->
            /\ i # 0
            /\ Len(tasks') = Len(tasks) - 1
            /\ tasks' = splice(tasks, i)

SaveFailedStep ==
  /\ isLoaded
  /\ calls' = calls + 1
  /\ last'.op \in MutatingOps
  /\ last'.saved = "fail"

C7_LoadedOnceByFirstCall ==
  [][/\ calls' >= 1 => loadCount' = 1
     /\ (isLoaded /\ Called("initialize")) => tasks' = tasks /\ loadCount' = loadCount]_vars

\* C8 : no two tasks of the collection have the same id.
C8_IdsAreUnique ==
  \A i, j \in 1..Len(tasks) : i # j => tasks[i].id # tasks[j].id

\* C9 : a successful deleteTask(id) of a task of the collection shortens the
\* collection by exactly one, leaves every other task as it was and in the same
\* order, and a getTaskById(id) that follows finds no task.
C9_DeleteRemovesExactlyOne ==
  [][(isLoaded /\ Called("deleteTask") /\ last'.success)
       => /\ Len(tasks') = Len(tasks) - 1
          /\ \E i \in 1..Len(tasks) :
               /\ tasks[i].id = last'.id
               /\ \A j \in 1..Len(tasks') : tasks'[j] = tasks[IF j < i THEN j ELSE j + 1]
          /\ \A j \in 1..Len(tasks') : tasks'[j].id # last'.id]_vars

\* a string that is empty or holds nothing but whitespace
IsBlank(str) == \A i \in 1..Len(str) : str[i] = " "

\* the tasks a file holds
storedTasks(f) == IF f.kind = "json" THEN f.data ELSE <<>>

\* C10 : createTask with an empty or whitespace-only title returns a failure
\* with error code INVALID_TITLE, appends nothing to the collection and does not
\* call saveTasks : the stored collection is unchanged.
C10_BlankTitleIsRejected ==
  [][Called("createTask") =>
     \A input \in CreateInputs, r \in RandomStrs, lo \in InitOutcomes :
       \A so \in SaveOutcomes(initialized(lo).file) :
         (createTask(input, r, lo, so) /\ IsBlank(input.title))
           => /\ last'.outcome = "returned"
              /\ last'.success = FALSE
              /\ last'.error = "INVALID_TITLE"
              /\ tasks' = initialized(lo).tasks
              /\ isLoaded => tasks' = tasks /\ file' = file
              /\ last'.saved = NONE
              /\ failedSaves' = failedSaves
              /\ storedTasks(file') = storedTasks(file)]_vars

\* C10 happens : createTask refused a blank title on a loaded collection that
\* holds tasks
C10_Witness ==
  /\ last.op = "createTask"
  /\ last.error = "INVALID_TITLE"
  /\ ~last.loaded
  /\ tasks # <<>>

\* C11 : a createTask with a non-blank title that returns success hands back a
\* task that a following getTaskById(id) finds under the returned id : title and
\* description are the trimmed inputs, dueDate is the input, status is TODO and
\* createdAt equals updatedAt.
C11_CreatedTaskIsFoundById ==
  [][\A input \in CreateInputs, r \in RandomStrs, lo \in InitOutcomes :
       \A so \in SaveOutcomes(initialized(lo).file) :
         (Called("createTask") /\ createTask(input, r, lo, so) /\ last'.success)
           => LET i == findIndex(tasks', last'.data[1].id)
              IN /\ i # 0
                 /\ tasks'[i] = last'.data[1]
                 /\ tasks'[i].title = trim(input.title)
                 /\ tasks'[i].description = optTrim(input.description)
                 /\ tasks'[i].dueDate = input.dueDate
                 /\ tasks'[i].status = TODO
                 /\ tasks'[i].createdAt = tasks'[i].updatedAt]_vars

\* C12 : every task of the collection has a status that is one of TODO,
\* IN_PROGRESS, COMPLETED (the tasks of the initial files all have one).
C12_StatusIsAlwaysValid ==
  \A i \in 1..Len(tasks) : tasks[i].status \in TaskStatus

\* a title that is not empty and has no whitespace at either end
IsTrimmedTitle(title) == title # <<>> /\ title[1] # " " /\ title[Len(title)] # " "

\* C13 : every task of the collection has a non-empty title without leading or
\* trailing whitespace (the tasks of the initial files all have one), and an
\* updateTask whose patch carries a title that trims to empty returns a failure
\* with INVALID_TITLE and leaves the collection and the file as they were.
C13_TitlesStayTrimmedAndNonBlank ==
  [][/\ \A i \in 1..Len(tasks') : IsTrimmedTitle(tasks'[i].title)
     /\ Called("updateTask") =>
          \A id \in IdInputs, p \in Patches, lo \in InitOutcomes :
           \A so \in SaveOutcomes(initialized(lo).file) :
            (p.title \notin {ABSENT, UNDEF} /\ IsBlank(p.title)
               /\ last'.id = id /\ updateTask(id, p, lo, so))
              => /\ last'.outcome = "returned"
                 /\ last'.success = FALSE
                 /\ last'.error = "INVALID_TITLE"
                 /\ last'.saved = NONE
                 /\ tasks' = initialized(lo).tasks
                 /\ isLoaded => tasks' = tasks /\ file' = file
                 /\ storedTasks(file') = storedTasks(file)]_vars

\* C13 happens : updateTask refused a blank title for an existing task, in a
\* collection holding a task created in this run from an untrimmed title
C13_Witness ==
  /\ last.op = "updateTask"
  /\ last.error = "INVALID_TITLE"
  /\ last.found
  /\ ~last.loaded
  /\ \E i \in 1..Len(tasks) : tasks[i].title = <<"a">> /\ tasks[i].createdAt # Date(0)

\* C14 : an updateTask or updateTaskStatus call leaves every task of the
\* collection at its place with its id and its createdAt, a successful update
\* sets the updatedAt of its task to the time of the call, and no task has an
\* updatedAt earlier than its createdAt.
C14_IdAndCreatedAtNeverChange ==
  [][/\ \A i \in 1..Len(tasks') :
          getTime(tasks'[i].updatedAt) >= getTime(tasks'[i].createdAt)
     /\ Called("updateTask") =>
          \A id \in IdInputs, p \in Patches, lo \in InitOutcomes :
           \A so \in SaveOutcomes(initialized(lo).file) :
            (last'.id = id /\ updateTask(id, p, lo, so))
              => LET before == initialized(lo).tasks
                 IN /\ Len(tasks') = Len(before)
                    /\ \A i \in 1..Len(before) :
                         /\ tasks'[i].id = before[i].id
                         /\ tasks'[i].createdAt = before[i].createdAt
                    /\ last'.success
                         => /\ tasks'[findIndex(before, id)].updatedAt = Date(now)
                            /\ last'.data[1].updatedAt = Date(now)
     /\ Called("updateTaskStatus") => tasks' = tasks]_vars

\* C14 happens : an update succeeded on a task created at an earlier time
C14_Witness ==
  /\ last.op = "updateTask"
  /\ last.success
  /\ \E i \in 1..Len(tasks) :
       /\ tasks[i].id = last.id
       /\ getTime(tasks[i].updatedAt) > getTime(tasks[i].createdAt)
       /\ tasks[i].updatedAt = Date(now)

\* C15 : for every collection the service holds, a saveTasks of it that
\* succeeds followed by loadTasks gives back the same tasks in the same order
\* with equal field values.
C15_SaveThenLoadRoundTrip ==
  isLoaded
    => LET sv == saveTasks(tasks, file, "ok")
       IN /\ sv.ok
          /\ Len(loadTasks(sv.file, "ok").tasks) = Len(tasks)
          /\ \A i \in 1..Len(tasks) : loadTasks(sv.file, "ok").tasks[i] = tasks[i]

\* the number of places at which t sits in the sequence ts
occurrences(ts, t) == Cardinality({i \in 1..Len(ts) : ts[i] = t})

\* a task has a due date that is a time
hasDueTime(t) == t.dueDate \notin {UNDEF, InvalidDate}

\* the criteria of a filter, as the claim words them
Satisfies(t, f) ==
  /\ f.status # UNDEF => t.status = f.status
  /\ f.hasDescription = JTRUE => (t.description # UNDEF /\ ~IsBlank(t.description))
  /\ f.hasDescription = JFALSE => (t.description = UNDEF \/ IsBlank(t.description))
  /\ f.dueBefore # UNDEF => ~(hasDueTime(t) /\ getTime(t.dueDate) > getTime(f.dueBefore))
  /\ f.dueAfter # UNDEF => ~(hasDueTime(t) /\ getTime(t.dueDate) < getTime(f.dueAfter))

\* C16 : getAllTasks(filter) returns exactly the tasks of the collection that
\* satisfy every criterion the filter provides : each of them as often as it is
\* in the collection, and no other task.
C16_FilterReturnsExactlyTheMatches ==
  [][Called("getAllTasks") =>
     \A f \in Filters, lo \in InitOutcomes :
       getAllTasks(f, lo)
         => LET all == initialized(lo).tasks
                got == last'.data[1]
            IN /\ last'.success
               /\ \A i \in 1..Len(got) : occurrences(all, got[i]) > 0
               /\ \A i \in 1..Len(all) :
                    occurrences(got, all[i])
                      = IF Satisfies(all[i], f) THEN occurrences(all, all[i]) ELSE 0]_vars

\* C16 happens : a filter kept some tasks of the collection and excluded others
C16_Witness ==
  /\ last.op = "getAllTasks"
  /\ last.success
  /\ Len(last.data[1]) > 0
  /\ Len(last.data[1]) < Len(tasks)

\* C17 : getAllTasks with no filter returns every task of the collection
\* exactly once, and each element of the result was created no earlier than the
\* element after it.
C17_UnfilteredListIsNewestFirst ==
  [][Called("getAllTasks") =>
     \A f \in {NoArgument, NoFilter}, lo \in InitOutcomes :
       getAllTasks(f, lo)
         => LET all == initialized(lo).tasks
                got == last'.data[1]
            IN /\ last'.success
               /\ Len(got) = Len(all)
               /\ \A i \in 1..Len(all) : occurrences(got, all[i]) = occurrences(all, all[i])
               /\ \A i \in 1..(Len(got) - 1) :
                    getTime(got[i].createdAt) >= getTime(got[i + 1].createdAt)]_vars

\* C17 happens : the whole collection was returned newest first while it sits
\* in memory oldest first
C17_Witness ==
  /\ last.op = "getAllTasks"
  /\ Len(tasks) > 1
  /\ Len(last.data[1]) = Len(tasks)
  /\ getTime(tasks[1].createdAt) < getTime(tasks[Len(tasks)].createdAt)
  /\ getTime(last.data[1][1].createdAt) > getTime(last.data[1][Len(tasks)].createdAt)

\* the places of ts whose task satisfies P
placesWhere(ts, P(_)) == {i \in 1..Len(ts) : P(ts[i])}

\* a task whose due date is a time strictly before the time at
isPastDue(t, at) == hasDueTime(t) /\ getTime(t.dueDate) < at

\* C18 : getTaskStats returns total = the number of tasks, todo, inProgress and
\* completed = the number of tasks with that status, and overdue = the number of
\* tasks with a dueDate strictly before now and a status other than COMPLETED;
\* one TODO task, one IN_PROGRESS and one COMPLETED task both past their due
\* date give 3, 1, 1, 1 and overdue 1.
C18_StatsCountTheCollection ==
  last.op = "getTaskStats"
    => LET stats == last.data[1]
       IN /\ last.success
          /\ stats.total = Len(tasks)
          /\ stats.todo = Cardinality(placesWhere(tasks, LAMBDA t : t.status = TODO))
          /\ stats.inProgress
               = Cardinality(placesWhere(tasks, LAMBDA t : t.status = IN_PROGRESS))
          /\ stats.completed
               = Cardinality(placesWhere(tasks, LAMBDA t : t.status = COMPLETED))
          /\ stats.overdue
               = Cardinality(placesWhere(tasks,
                   LAMBDA t : isPastDue(t, now) /\ t.status # COMPLETED))
          /\ tasks = <<Old1, Old2, Old3>>
               => stats = [total |-> 3, todo |-> 1, inProgress |-> 1, completed |-> 1,
                           overdue |-> 1]

\* C18 happens : the statistics of one TODO task, one IN_PROGRESS task past its
\* due date and one COMPLETED task past its due date were returned
C18_Witness ==
  /\ last.op = "getTaskStats"
  /\ tasks = <<Old1, Old2, Old3>>
  /\ isTaskOverdue(Old2, Date(now))
  /\ isPastDue(Old3, now)
  /\ last.data[1].overdue = 1

ReadOps == {"getAllTasks", "getTaskById", "getTaskStats"}

\* C19 : on a loaded service a call of getAllTasks, getTaskById or getTaskStats
\* leaves the collection (its tasks, their field values, their order) and the
\* file as they were, and does not call saveTasks.
C19_ReadsChangeNothing ==
  [][(isLoaded /\ calls' = calls + 1 /\ last'.op \in ReadOps)
       => /\ tasks' = tasks
          /\ file' = file
          /\ last'.saved = NONE
          /\ failedSaves' = failedSaves
          /\ loadCount' = loadCount]_vars

\* C19 happens : a read was made on a loaded collection that is not in the
\* order getAllTasks returns
C19_Witness ==
  /\ last.op = "getAllTasks"
  /\ ~last.loaded
  /\ Len(tasks) > 1
  /\ Len(last.data[1]) = Len(tasks)
  /\ last.data[1] # tasks

\* C20 : `list --overdue` (getAllTasks with dueBefore = the time of the command)
\* lists only tasks with a dueDate strictly in the past and a status other than
\* COMPLETED, as many as the overdue count of getTaskStats for the same
\* collection at the same time.
C20_ListOverdueShowsOverdueOnly ==
  [][\A lo \in InitOutcomes :
       (Called("getAllTasks") /\ getAllTasks(OverdueFilter, lo))
         => LET listed == last'.data[1]
            IN /\ \A i \in 1..Len(listed) :
                    isPastDue(listed[i], now) /\ listed[i].status # COMPLETED
               /\ Len(listed) = taskStats(initialized(lo).tasks, Date(now)).overdue]_vars

\* C22 : every task that was in the tasks file when the process started and
\* whose id was never passed to deleteTask is still in the tasks file.
C22_NoTaskLostWithoutDelete ==
  \A i \in 1..Len(storedTasks(startFile)) :
    \/ storedTasks(startFile)[i].id \in deleted
    \/ \E k \in 1..Len(storedTasks(file)) :
         storedTasks(file)[k].id = storedTasks(startFile)[i].id

\* C21 : a successful backup of an existing tasks file, taken at a time at
\* which no earlier backup was taken, keeps every earlier backup file and adds
\* one more, which holds the tasks file as it is at that time.
C21_EveryBackupIsKept ==
  [][(Called("backupTasks") /\ last'.success /\ file.kind # "missing"
        /\ \A b \in backups : b.at # now)
       => /\ backups \subseteq backups'
          /\ Cardinality(backups') = Cardinality(backups) + 1
          /\ \E b \in backups' \ backups : b.data = file /\ b.at = now]_vars

\* the task t sits in the sequence ts
holds(ts, t) == \E i \in 1..Len(ts) : ts[i] = t

\* C23 : once two createTask calls, both made on the service before it was
\* loaded and the second before the first had returned, have both returned
\* success, the store was loaded once only and the collection and the tasks
\* file hold the tasks of both calls.
C23_NoMutationLostInARace ==
  (\A c \in Calls :
     running[c].loads /\ running[c].pc = "done" /\ running[c].response.success)
    => /\ loadCount = 1
       /\ \A c \in Calls :
            /\ holds(tasks, running[c].created)
            /\ holds(storedTasks(file), taskToJSON(running[c].created))

====
